---------------------------- MODULE Spec2Model ----------------------------
(***************************************************************************)
(* A model of facil.io's Base64 codec (fio_base64.c): the encoder          *)
(* fio_base64_encode_internal and the decoder fio_base64_decode, each as a *)
(* step function over its local variables and the memory it touches.       *)
(*                                                                         *)
(* Memory is a window of cells addressed relative to the buffer's first    *)
(* byte.  A cell holds a byte 0..255 or Unk, an indeterminate byte: memory *)
(* around a buffer that the caller never initialised.  An indeterminate    *)
(* cell the decoder reads is given a value when it is first read (any of   *)
(* GuardBytes), and keeps it: reading outside the text is undefined        *)
(* behaviour, and every value the cell may hold is an outcome.  An access  *)
(* outside the window ends the run in pc = "trap" (a fault).               *)
(***************************************************************************)
EXTENDS Integers, Sequences, FiniteSets

(* ------------------------------- bounds -------------------------------- *)

\* longest raw byte sequence handed to the encoder
MaxData == 4
\* longest text handed to the decoder directly
MaxText == 5
\* cells modelled before a buffer's first byte (encoded[-1], encoded[-2])
GuardLo == 2
\* last cell of the memory window
WinHi == 12

\* an indeterminate byte
Unk == 0 - 1

Cells == (0 - GuardLo)..WinHi

\* byte values the raw data is drawn from: 0 (symbol 'A'), 'f', and two
\* bytes >= 128 whose symbols differ between the two alphabets
DataBytes == {0, 102, 251, 255}
\* characters the decoder's text is drawn from: 'A', 'Z', 'g', '=', '\n'
TextBytes == {65, 90, 103, 61, 10}
\* values an indeterminate cell may turn out to hold: NUL, '=', 'Z'
GuardBytes == {0, 61, 90}

(* --------------------------- C integer helpers ------------------------- *)

RECURSIVE BitAndN(_, _)
\* a & b on naturals
BitAndN(a, b) ==
    IF a = 0 \/ b = 0 THEN 0
    ELSE (IF a % 2 = 1 /\ b % 2 = 1 THEN 1 ELSE 0) + 2 * BitAndN(a \div 2, b \div 2)

RECURSIVE BitOrN(_, _)
\* a | b on naturals
BitOrN(a, b) ==
    IF a = 0 THEN b
    ELSE IF b = 0 THEN a
    ELSE (IF a % 2 = 1 \/ b % 2 = 1 THEN 1 ELSE 0) + 2 * BitOrN(a \div 2, b \div 2)

\* two's complement of an int of small magnitude, on 16 bits, and back
U16(x) == x % 65536
S16(u) == IF u >= 32768 THEN u - 65536 ELSE u

\* the C operators on int operands of magnitude below 2^15
And(a, b) == S16(BitAndN(U16(a), U16(b)))
Or(a, b) == S16(BitOrN(U16(a), U16(b)))
Shl(a, n) == a * (2 ^ n)
\* >> of a signed int is arithmetic: it rounds toward minus infinity
Shr(a, n) == a \div (2 ^ n)

\* a byte read through a (signed) char, promoted to int
SChar(b) == IF b >= 128 THEN b - 256 ELSE b
\* an int stored into a char: its low eight bits
Byte(x) == x % 256

(* ------------------------------- tables -------------------------------- *)

\* base64_encodes_original: "A-Za-z0-9+/=" as character codes
base64_encodes_original == <<
    65, 66, 67, 68, 69, 70, 71, 72, 73, 74, 75, 76, 77, 78, 79, 80,
    81, 82, 83, 84, 85, 86, 87, 88, 89, 90, 97, 98, 99, 100, 101, 102,
    103, 104, 105, 106, 107, 108, 109, 110, 111, 112, 113, 114, 115, 116, 117, 118,
    119, 120, 121, 122, 48, 49, 50, 51, 52, 53, 54, 55, 56, 57, 43, 47,
    61 >>

\* base64_encodes_url: "A-Za-z0-9-_=" as character codes
base64_encodes_url == <<
    65, 66, 67, 68, 69, 70, 71, 72, 73, 74, 75, 76, 77, 78, 79, 80,
    81, 82, 83, 84, 85, 86, 87, 88, 89, 90, 97, 98, 99, 100, 101, 102,
    103, 104, 105, 106, 107, 108, 109, 110, 111, 112, 113, 114, 115, 116, 117, 118,
    119, 120, 121, 122, 48, 49, 50, 51, 52, 53, 54, 55, 56, 57, 45, 95,
    61 >>

\* base64_decodes: the 256-entry decoding table, entry c at position c + 1
base64_decodes == <<
    0, 0, 0, 0, 0, 0, 0, 0, 0, 0, 0, 0, 0, 0, 0, 0,
    0, 0, 0, 0, 0, 0, 0, 0, 0, 0, 0, 0, 0, 0, 0, 0,
    0, 0, 0, 0, 0, 0, 0, 0, 0, 0, 0, 62, 63, 62, 0, 63,
    52, 53, 54, 55, 56, 57, 58, 59, 60, 61, 0, 0, 0, 64, 0, 0,
    0, 0, 1, 2, 3, 4, 5, 6, 7, 8, 9, 10, 11, 12, 13, 14,
    15, 16, 17, 18, 19, 20, 21, 22, 23, 24, 25, 0, 0, 0, 0, 63,
    0, 26, 27, 28, 29, 30, 31, 32, 33, 34, 35, 36, 37, 38, 39, 40,
    41, 42, 43, 44, 45, 46, 47, 48, 49, 50, 51, 0, 0, 0, 0, 0,
    0, 0, 0, 0, 0, 0, 0, 0, 0, 0, 0, 0, 0, 0, 0, 0,
    0, 0, 0, 0, 0, 0, 0, 0, 0, 0, 0, 0, 0, 0, 0, 0,
    0, 0, 0, 0, 0, 0, 0, 0, 0, 0, 0, 0, 0, 0, 0, 0,
    0, 0, 0, 0, 0, 0, 0, 0, 0, 0, 0, 0, 0, 0, 0, 0,
    0, 0, 0, 0, 0, 0, 0, 0, 0, 0, 0, 0, 0, 0, 0, 0,
    0, 0, 0, 0, 0, 0, 0, 0, 0, 0, 0, 0, 0, 0, 0, 0,
    0, 0, 0, 0, 0, 0, 0, 0, 0, 0, 0, 0, 0, 0, 0, 0,
    0, 0, 0, 0, 0, 0, 0, 0, 0, 0, 0, 0, 0, 0, 0, 0 >>

\* base64_decodes[c] for a byte c
Decodes(c) == base64_decodes[c + 1]

\* BITVAL(x)
BITVAL(x) == BitAndN(Decodes(x), 63)

\* base64_encodes[i]; an index outside the 65-entry array reads foreign memory
MapAt(map, i) == IF i \in 0..64 THEN map[i + 1] ELSE Unk

\* the '=' character
PadChar == 61

(* ------------------------------- memory -------------------------------- *)

\* a window of indeterminate memory
Blank == [i \in Cells |-> Unk]

\* a window holding the bytes of seq from cell 0 on, indeterminate elsewhere
Load(seq) == [i \in Cells |-> IF i \in 0..(Len(seq) - 1) THEN seq[i + 1] ELSE Unk]

\* the first n cells of a window, as a sequence
Take(m, n) == [i \in 1..n |-> m[i - 1]]

\* the memory a call writes to: the input's own when target and input alias
Target(s) == IF s.alias THEN s.src ELSE s.dst

\* *(p) = v at cell i of the target, recorded in wr; a store outside the
\* window faults
Store(s, i, v) ==
    IF s.pc = "trap" THEN s
    ELSE IF i \notin Cells THEN [s EXCEPT !.pc = "trap"]
    ELSE IF s.alias THEN [s EXCEPT !.src[i] = v, !.wr = @ \cup {i}]
    ELSE [s EXCEPT !.dst[i] = v, !.wr = @ \cup {i}]

(* ------------------------------- encoder ------------------------------- *)

\* the alphabet a call encodes with
EncMap(s) == IF s.url THEN base64_encodes_url ELSE base64_encodes_original

\* the encoder's state on entry: data holds len bytes; target is either the
\* same region (alias) or a separate, uninitialised one
EncInit(data, url, alias) ==
    [pc |-> "start", src |-> Load(data), dst |-> Blank, alias |-> alias,
     url |-> url, len |-> Len(data), groups |-> 0, mod |-> 0, tsize |-> 0,
     reader |-> 0, writer |-> 0, ret |-> 0, wr |-> {}, clobber |-> FALSE]

\* the encoder when no call is in progress
EncIdle == [EncInit(<< >>, FALSE, FALSE) EXCEPT !.pc = "idle"]

\* a store by the encoder: in aliased mode, a store to a cell the reader has
\* yet to read (0..reader) clobbers input
EncStore(s, i, v) ==
    Store([s EXCEPT !.clobber = @ \/ (s.alias /\ i \in 0..s.reader)], i, v)

\* the four table indices of a full group
EncGroupNoMask(tmp1, tmp2, tmp3) ==
    << And(Shr(tmp1, 2), 63),
       Or(Shl(And(tmp1, 3), 4), And(Shr(tmp2, 4), 15)),
       Or(Shl(And(tmp2, 15), 2), Shr(tmp3, 6)),
       And(tmp3, 63) >>

EncGroup(tmp1, tmp2, tmp3) ==
    << And(Shr(tmp1, 2), 63),
       Or(Shl(And(tmp1, 3), 4), And(Shr(tmp2, 4), 15)),
       Or(Shl(And(tmp2, 15), 2), And(Shr(tmp3, 6), 3)),
       And(tmp3, 63) >>

\* groups, mod, target_size, writer, reader; writer[1] = 0
EncStart(s) ==
    LET groups == s.len \div 3
        mod == s.len - (groups * 3)
        tsize == (groups + (IF mod # 0 THEN 1 ELSE 0)) * 4
        s1 == [s EXCEPT !.pc = "switch", !.groups = groups, !.mod = mod,
                        !.tsize = tsize, !.writer = tsize - 1,
                        !.reader = s.len - 1]
    IN  EncStore(s1, s1.writer + 1, 0)

\* switch (mod): the final partial group, written first
EncSwitch(s) ==
    LET map == EncMap(s)
        w == s.writer
        r == s.reader
    IN  IF s.mod = 2 THEN
            LET tmp2 == SChar(s.src[r])
                tmp1 == SChar(s.src[r - 1])
                s1 == [s EXCEPT !.pc = "loop", !.reader = r - 2, !.writer = w - 4]
                s2 == EncStore(s1, w, PadChar)
                s3 == EncStore(s2, w - 1, MapAt(map, Shl(And(tmp2, 15), 2)))
                s4 == EncStore(s3, w - 2,
                        MapAt(map, Or(Shl(And(tmp1, 3), 4), And(Shr(tmp2, 4), 15))))
            IN  EncStore(s4, w - 3, MapAt(map, And(Shr(tmp1, 2), 63)))
        ELSE IF s.mod = 1 THEN
            LET tmp1 == SChar(s.src[r])
                s1 == [s EXCEPT !.pc = "loop", !.reader = r - 1, !.writer = w - 4]
                s2 == EncStore(s1, w, PadChar)
                s3 == EncStore(s2, w - 1, PadChar)
                s4 == EncStore(s3, w - 2, MapAt(map, Shl(And(tmp1, 3), 4)))
            IN  EncStore(s4, w - 3, MapAt(map, And(Shr(tmp1, 2), 63)))
        ELSE [s EXCEPT !.pc = "loop"]

\* while (groups) { ... }; return target_size
EncLoop(s) ==
    IF s.groups # 0 THEN
        LET map == EncMap(s)
            w == s.writer
            r == s.reader
            tmp3 == SChar(s.src[r])
            tmp2 == SChar(s.src[r - 1])
            tmp1 == SChar(s.src[r - 2])
            g == EncGroup(tmp1, tmp2, tmp3)
            s1 == [s EXCEPT !.groups = @ - 1, !.reader = r - 3, !.writer = w - 4]
            s2 == EncStore(s1, w, MapAt(map, g[4]))
            s3 == EncStore(s2, w - 1, MapAt(map, g[3]))
            s4 == EncStore(s3, w - 2, MapAt(map, g[2]))
        IN  EncStore(s4, w - 3, MapAt(map, g[1]))
    ELSE [s EXCEPT !.pc = "done", !.ret = s.tsize]

\* the encoder's traversal turned around: first group first, both cursors
\* ascending, the partial group last
EncStepForward(s) ==
    LET map == EncMap(s)
        w == s.writer
        r == s.reader
        hit(i) == s.alias /\ i \in (r + 3)..(s.len - 1)
        put(q, i, v) == Store([q EXCEPT !.clobber = @ \/ hit(i)], i, v)
    IN  CASE s.pc = "start" ->
               LET s1 == EncStart(s)
               IN  IF s1.pc = "trap" THEN s1
                   ELSE [s1 EXCEPT !.pc = "loop", !.reader = 0, !.writer = 0]
          [] s.pc = "loop" /\ s.groups # 0 ->
               LET g == EncGroup(SChar(s.src[r]), SChar(s.src[r + 1]), SChar(s.src[r + 2]))
                   s1 == [s EXCEPT !.groups = @ - 1, !.reader = r + 3, !.writer = w + 4]
                   s2 == put(s1, w, MapAt(map, g[1]))
                   s3 == put(s2, w + 1, MapAt(map, g[2]))
                   s4 == put(s3, w + 2, MapAt(map, g[3]))
               IN  put(s4, w + 3, MapAt(map, g[4]))
          [] s.pc = "loop" /\ s.groups = 0 -> [s EXCEPT !.pc = "switch"]
          [] s.pc = "switch" ->
               LET tmp1 == IF s.mod # 0 THEN SChar(s.src[r]) ELSE 0
                   tmp2 == IF s.mod = 2 THEN SChar(s.src[r + 1]) ELSE 0
                   g == EncGroup(tmp1, tmp2, 0)
                   s1 == [s EXCEPT !.pc = "done", !.ret = s.tsize]
                   s2 == put(s1, w, MapAt(map, g[1]))
                   s3 == put(s2, w + 1, MapAt(map, g[2]))
                   s4 == put(s3, w + 2, IF s.mod = 2 THEN MapAt(map, g[3]) ELSE PadChar)
               IN  IF s.mod = 0 THEN s1 ELSE put(s4, w + 3, PadChar)
          [] OTHER -> s

\* the cells the encoder's next step reads
EncReads(s) ==
    CASE s.pc = "switch" -> (s.reader - s.mod + 1)..s.reader
      [] s.pc = "loop" /\ s.groups # 0 -> (s.reader - 2)..s.reader
      [] OTHER -> {}

\* one step of fio_base64_encode_internal; a read outside the window faults
EncStep(s) ==
    IF ~(EncReads(s) \subseteq Cells) THEN [s EXCEPT !.pc = "trap"]
    ELSE CASE s.pc = "start" -> EncStart(s)
           [] s.pc = "switch" -> EncSwitch(s)
           [] s.pc = "loop" -> EncLoop(s)
           [] OTHER -> s

EncRunning(s) == s.pc \in {"start", "switch", "loop"}

RECURSIVE EncRun(_)
\* the call run to its return
EncRun(s) == IF EncRunning(s) THEN EncRun(EncStep(s)) ELSE s

\* fio_base64_encode(target, data, len) into a separate target
fio_base64_encode(data) == EncRun(EncInit(data, FALSE, FALSE))

\* fio_base64url_encode(target, data, len) into a separate target
fio_base64url_encode(data) == EncRun(EncInit(data, TRUE, FALSE))

(* ------------------------------- decoder ------------------------------- *)

\* the decoder's state on entry: mem holds the text from cell 0 on, len is
\* base64_len; alias is a NULL target (decode into the text's own memory).
\* orig keeps the memory as it was on entry; syms is the history of the
\* bytes taken as symbols (tmp1..tmp4), emitted the number of decoded bytes
\* stored.
DecInit(mem, len, alias) ==
    [pc |-> "start", src |-> mem, orig |-> mem, dst |-> Blank, alias |-> alias,
     len |-> len, blen |-> len, e |-> 0, t |-> 0, written |-> 0,
     tmp1 |-> 0, tmp2 |-> 0, tmp3 |-> 0, tmp4 |-> 0, ret |-> 0,
     rd |-> {}, wr |-> {}, trail |-> TRUE, syms |-> << >>, emitted |-> 0]

\* the decoder when no call is in progress
DecIdle == [DecInit(Blank, 0, FALSE) EXCEPT !.pc = "idle"]

\* *(target++) = v, or *target = v, at cell i; trail records that every store
\* so far went to a cell below the read cursor
DecStore(s, i, v) == Store([s EXCEPT !.trail = @ /\ (i < s.e)], i, v)

\* base64_len && !base64_decodes[*(uint8_t *)encoded]
DecSkipping(s) == s.blen # 0 /\ Decodes(s.src[s.e]) = 0

\* the cells the decoder's next step reads
DecReads(s) ==
    CASE s.pc \in {"skip0", "skip1", "skip2", "skip3", "skip4", "skip5",
                   "get1", "get2", "get3", "get4"} ->
             IF s.blen # 0 THEN {s.e} ELSE {}
      [] s.pc = "tail" ->
             IF s.blen \in 1..3 THEN s.e..(s.e + s.blen - 1) ELSE {}
      [] s.pc = "pad" ->
             {s.e - 1} \cup
             (IF (s.e - 1) \in Cells /\ s.src[s.e - 1] = PadChar
              THEN {s.e - 2} ELSE {})
      [] OTHER -> {}

\* the cells of the next step's reads whose byte is still indeterminate
DecUnknown(s) == {i \in DecReads(s) \cap Cells : s.src[i] = Unk}

\* the read of DecReads(s), recorded
DecRead(s) == [s EXCEPT !.rd = @ \cup DecReads(s)]

\* if (!target) target = encoded; if (base64_len <= 0) {...}; int written = 0
DecStart(s) ==
    IF s.len <= 0
    THEN DecStore([s EXCEPT !.pc = "done", !.ret = 0], 0, 0)
    ELSE [s EXCEPT !.pc = "skip0", !.written = 0]

\* one test of "while (base64_len && !base64_decodes[...]) base64_len--;"
DecSkipStart(s) ==
    IF DecSkipping(s) THEN [s EXCEPT !.blen = @ - 1]
    ELSE [s EXCEPT !.pc = "while"]

\* while (base64_len >= 4)
DecWhile(s) ==
    IF s.blen >= 4 THEN [s EXCEPT !.pc = "skip1"] ELSE [s EXCEPT !.pc = "tail"]

\* one test of a "skip unknown data" loop inside the group loop
DecSkip(s, next) ==
    IF DecSkipping(s) THEN [s EXCEPT !.blen = @ - 1, !.e = @ + 1]
    ELSE [s EXCEPT !.pc = next]

\* if (!base64_len) return written; tmp1 = *(encoded++)
DecGet1(s) ==
    IF s.blen = 0 THEN [s EXCEPT !.pc = "done", !.ret = s.written]
    ELSE [s EXCEPT !.tmp1 = s.src[s.e], !.e = @ + 1, !.pc = "skip2",
                   !.syms = Append(@, s.src[s.e])]

\* if (!base64_len) goto oops1; tmp2 = *(encoded++)
DecGet2(s) ==
    IF s.blen = 0 THEN [s EXCEPT !.pc = "oops1"]
    ELSE [s EXCEPT !.tmp2 = s.src[s.e], !.e = @ + 1, !.pc = "skip3",
                   !.syms = Append(@, s.src[s.e])]

\* if (!base64_len) goto oops2; tmp3 = *(encoded++)
DecGet3(s) ==
    IF s.blen = 0 THEN [s EXCEPT !.pc = "oops2"]
    ELSE [s EXCEPT !.tmp3 = s.src[s.e], !.e = @ + 1, !.pc = "skip4",
                   !.syms = Append(@, s.src[s.e])]

\* the three bytes of a full group
DecGroup(tmp1, tmp2, tmp3, tmp4) ==
    << Byte(Or(Shl(BITVAL(tmp1), 2), Shr(BITVAL(tmp2), 4))),
       Byte(Or(Shl(BITVAL(tmp2), 4), Shr(BITVAL(tmp3), 2))),
       Byte(Or(Shl(BITVAL(tmp3), 6), BITVAL(tmp4))) >>

\* if (!base64_len) goto oops3; tmp4 = *(encoded++); the three stores;
\* base64_len -= 4; written += 3
DecGet4(s) ==
    IF s.blen = 0 THEN [s EXCEPT !.pc = "oops3"]
    ELSE
        LET tmp4 == s.src[s.e]
            b == DecGroup(s.tmp1, s.tmp2, s.tmp3, tmp4)
            s1 == [s EXCEPT !.tmp4 = tmp4, !.e = @ + 1, !.pc = "skip5",
                            !.t = @ + 3, !.blen = @ - 4, !.written = @ + 3,
                            !.syms = Append(@, tmp4), !.emitted = @ + 3]
            s2 == DecStore(s1, s.t, b[1])
            s3 == DecStore(s2, s.t + 1, b[2])
        IN  DecStore(s3, s.t + 2, b[3])

\* tmp1 = tmp2 = tmp3 = tmp4 = 0; switch (base64_len)
DecTail(s) ==
    LET z == [s EXCEPT !.tmp1 = 0, !.tmp2 = 0, !.tmp3 = 0, !.tmp4 = 0, !.pc = "pad"]
    IN  CASE s.blen = 1 ->
               LET tmp1 == s.src[s.e]
                   s1 == [z EXCEPT !.tmp1 = tmp1, !.e = @ + 1, !.t = @ + 1,
                                   !.written = @ + 1, !.emitted = @ + 1,
                                   !.syms = Append(@, tmp1)]
               IN  DecStore(s1, s.t, Byte(BITVAL(tmp1)))
          [] s.blen = 2 ->
               LET tmp1 == s.src[s.e]
                   tmp2 == s.src[s.e + 1]
                   s1 == [z EXCEPT !.tmp1 = tmp1, !.tmp2 = tmp2, !.e = @ + 2,
                                   !.t = @ + 2, !.written = @ + 2,
                                   !.emitted = @ + 2,
                                   !.syms = @ \o << tmp1, tmp2 >>]
                   s2 == DecStore(s1, s.t,
                            Byte(Or(Shl(BITVAL(tmp1), 2), Shr(BITVAL(tmp2), 6))))
               IN  DecStore(s2, s.t + 1, Byte(Shl(BITVAL(tmp2), 4)))
          [] s.blen = 3 ->
               LET tmp1 == s.src[s.e]
                   tmp2 == s.src[s.e + 1]
                   tmp3 == s.src[s.e + 2]
                   s1 == [z EXCEPT !.tmp1 = tmp1, !.tmp2 = tmp2, !.tmp3 = tmp3,
                                   !.e = @ + 3, !.t = @ + 3, !.written = @ + 3,
                                   !.emitted = @ + 3,
                                   !.syms = @ \o << tmp1, tmp2, tmp3 >>]
                   s2 == DecStore(s1, s.t,
                            Byte(Or(Shl(BITVAL(tmp1), 2), Shr(BITVAL(tmp2), 6))))
                   s3 == DecStore(s2, s.t + 1,
                            Byte(Or(Shl(BITVAL(tmp2), 4), Shr(BITVAL(tmp3), 2))))
               IN  DecStore(s3, s.t + 2, Byte(Shl(BITVAL(tmp3), 6)))
          [] OTHER -> z

\* the number of bytes the padding check takes back: encoded[-1], encoded[-2]
DecRetract(s) ==
    IF s.src[s.e - 1] = PadChar
    THEN (IF s.src[s.e - 2] = PadChar THEN 2 ELSE 1)
    ELSE 0

\* if (encoded[-1] == '=') {...}; *target = 0; return written
DecPad(s) ==
    LET k == DecRetract(s)
        s1 == [s EXCEPT !.t = @ - k, !.written = @ - k, !.ret = s.written - k,
                        !.pc = "done"]
    IN  DecStore(s1, s1.t, 0)

\* oops1: one byte, no terminator
DecOops1(s) ==
    DecStore([s EXCEPT !.t = @ + 1, !.written = @ + 1, !.ret = s.written + 1,
                       !.emitted = @ + 1, !.pc = "done"],
             s.t, Byte(BITVAL(s.tmp1)))

\* oops2: two bytes, no terminator
DecOops2(s) ==
    LET s1 == [s EXCEPT !.t = @ + 2, !.written = @ + 2, !.ret = s.written + 2,
                        !.emitted = @ + 2, !.pc = "done"]
        s2 == DecStore(s1, s.t,
                 Byte(Or(Shl(BITVAL(s.tmp1), 2), Shr(BITVAL(s.tmp2), 6))))
    IN  DecStore(s2, s.t + 1, Byte(Shl(BITVAL(s.tmp2), 4)))

\* oops3: three bytes, no terminator
DecOops3(s) ==
    LET s1 == [s EXCEPT !.t = @ + 3, !.written = @ + 3, !.ret = s.written + 3,
                        !.emitted = @ + 3, !.pc = "done"]
        s2 == DecStore(s1, s.t,
                 Byte(Or(Shl(BITVAL(s.tmp1), 2), Shr(BITVAL(s.tmp2), 6))))
        s3 == DecStore(s2, s.t + 1,
                 Byte(Or(Shl(BITVAL(s.tmp2), 4), Shr(BITVAL(s.tmp3), 2))))
    IN  DecStore(s3, s.t + 2, Byte(Shl(BITVAL(s.tmp3), 6)))

DecRunning(s) == s.pc \notin {"idle", "done", "trap"}

\* one step of fio_base64_decode, every cell it reads holding a byte; a read
\* outside the window faults
DecStep(s) ==
    IF ~(DecReads(s) \subseteq Cells) THEN [s EXCEPT !.pc = "trap"]
    ELSE LET r == DecRead(s)
         IN  CASE s.pc = "start" -> DecStart(r)
               [] s.pc = "skip0" -> DecSkipStart(r)
               [] s.pc = "while" -> DecWhile(r)
               [] s.pc = "skip1" -> DecSkip(r, "get1")
               [] s.pc = "get1" -> DecGet1(r)
               [] s.pc = "skip2" -> DecSkip(r, "get2")
               [] s.pc = "get2" -> DecGet2(r)
               [] s.pc = "skip3" -> DecSkip(r, "get3")
               [] s.pc = "get3" -> DecGet3(r)
               [] s.pc = "skip4" -> DecSkip(r, "get4")
               [] s.pc = "get4" -> DecGet4(r)
               [] s.pc = "skip5" -> DecSkip(r, "while")
               [] s.pc = "tail" -> DecTail(r)
               [] s.pc = "pad" -> DecPad(r)
               [] s.pc = "oops1" -> DecOops1(r)
               [] s.pc = "oops2" -> DecOops2(r)
               [] s.pc = "oops3" -> DecOops3(r)
               [] OTHER -> s

\* an indeterminate cell read for the first time turns out to hold v
DecReveal(s, i, v) == [s EXCEPT !.src[i] = v, !.orig[i] = v]

RECURSIVE DecRun(_)
\* the call run to its return, or up to its first read of an indeterminate cell
DecRun(s) ==
    IF DecRunning(s) /\ DecUnknown(s) = {} THEN DecRun(DecStep(s)) ELSE s

\* fio_base64_decode(target, encoded, base64_len) with the text and its
\* surroundings in mem; alias is target == NULL
fio_base64_decode(mem, len, alias) == DecRun(DecInit(mem, len, alias))

(* ---------------------------- the state machine ------------------------ *)

VARIABLES
    kind,   \* "roundtrip": encode data, then decode the result; "text": decode a text
    data,   \* the raw bytes handed to the encoder
    enc,    \* the encoder call
    dec     \* the decoder call

vars == << kind, data, enc, dec >>

RECURSIVE SeqsUpTo(_, _)
\* the sequences over S of length at most n
SeqsUpTo(S, n) ==
    IF n = 0 THEN {<< >>}
    ELSE LET shorter == SeqsUpTo(S, n - 1)
         IN  shorter \cup {Append(q, x) : q \in {p \in shorter : Len(p) = n - 1}, x \in S}

DataInputs == SeqsUpTo(DataBytes, MaxData)
TextInputs == SeqsUpTo(TextBytes, MaxText)

Init ==
    \/ /\ kind = "roundtrip"
       /\ data \in DataInputs
       /\ \E url \in BOOLEAN, alias \in BOOLEAN : enc = EncInit(data, url, alias)
       /\ dec = DecIdle
    \/ /\ kind = "text"
       /\ data = << >>
       /\ enc = EncIdle
       /\ \E text \in TextInputs, alias \in BOOLEAN :
              dec = DecInit(Load(text), Len(text), alias)

\* the encoder takes its next step
EncodeStep ==
    /\ EncRunning(enc)
    /\ enc' = EncStep(enc)
    /\ UNCHANGED << kind, data, dec >>

\* the encoder's output, as it lies in memory, is handed to the decoder
DecodeEncoded ==
    /\ enc.pc = "done"
    /\ dec.pc = "idle"
    /\ \E alias \in BOOLEAN : dec' = DecInit(Target(enc), enc.ret, alias)
    /\ UNCHANGED << kind, data, enc >>

\* the decoder is about to read an indeterminate cell: it holds some byte
Materialize ==
    /\ DecRunning(dec)
    /\ DecUnknown(dec) # {}
    /\ \E i \in DecUnknown(dec), v \in GuardBytes : dec' = DecReveal(dec, i, v)
    /\ UNCHANGED << kind, data, enc >>

\* the decoder takes its next step
DecodeStep ==
    /\ DecRunning(dec)
    /\ DecUnknown(dec) = {}
    /\ dec' = DecStep(dec)
    /\ UNCHANGED << kind, data, enc >>

Next == EncodeStep \/ DecodeEncoded \/ Materialize \/ DecodeStep

Spec == Init /\ [][Next]_vars

(* ------------------------------ properties ----------------------------- *)

\* ceil(n / 3)
Ceil3(n) == (n + 2) \div 3

\* the text handed to the decoder, as it was on entry
DecText == Take(dec.orig, dec.len)

\* no read of the decoder's run left the text
DecInBounds(s) == s.rd \subseteq 0..(s.len - 1)

\* a byte of either alphabet (not '=')
IsAlphabetChar(c) ==
    \E i \in 1..64 : base64_encodes_original[i] = c \/ base64_encodes_url[i] = c

(* C1: round trip.  Decoding the text the encoder produced for b (either   *)
(* alphabet) returns len(b) and leaves the bytes of b in the output.       *)
C1_RoundTrip ==
    (kind = "roundtrip" /\ dec.pc = "done") =>
        /\ dec.ret = Len(data)
        /\ Take(Target(dec), Len(data)) = data

RECURSIVE RefEncode(_, _)
\* the reference Base64 encoding of the unsigned bytes b, first group first
RefEncode(b, map) ==
    IF Len(b) = 0 THEN << >>
    ELSE IF Len(b) = 1 THEN
        << map[(b[1] \div 4) + 1], map[((b[1] % 4) * 16) + 1], PadChar, PadChar >>
    ELSE IF Len(b) = 2 THEN
        << map[(b[1] \div 4) + 1],
           map[((b[1] % 4) * 16) + (b[2] \div 16) + 1],
           map[((b[2] % 16) * 4) + 1], PadChar >>
    ELSE
        << map[(b[1] \div 4) + 1],
           map[((b[1] % 4) * 16) + (b[2] \div 16) + 1],
           map[((b[2] % 16) * 4) + (b[3] \div 64) + 1],
           map[(b[3] % 64) + 1] >> \o RefEncode(SubSeq(b, 4, Len(b)), map)

(* C3: the encoder returns 4 * ceil(len / 3), and the first that many      *)
(* bytes of its output are the reference Base64 encoding of the input in   *)
(* the selected alphabet, padded with 0, 2 or 1 '=' for len mod 3 = 0, 1,  *)
(* 2, for every byte value (those >= 128 included).                        *)
C3_EncodeIsReference ==
    enc.pc = "done" =>
        /\ enc.ret = 4 * Ceil3(Len(data))
        /\ Take(Target(enc), enc.ret) = RefEncode(data, EncMap(enc))

\* the encoder has returned from an input of one full group and a one-byte
\* partial group, whose bytes include one >= 128, in the URL alphabet
C3_Witness ==
    /\ enc.pc = "done"
    /\ enc.url
    /\ Len(data) = 4
    /\ data[3] = 255
    /\ Take(Target(enc), 8)[8] = PadChar

(* C4: in-place encode equivalence.  Encoding with target == data leaves   *)
(* in the first 4 * ceil(n / 3) bytes of the region what encoding the      *)
(* original n bytes into a separate target produces, and never stores to   *)
(* an input byte it has yet to read.                                       *)
C4_InPlaceEncode ==
    (enc.alias /\ enc.pc \in {"switch", "loop", "done"}) =>
        /\ ~enc.clobber
        /\ enc.pc = "done" =>
              LET sep == EncRun(EncInit(data, enc.url, FALSE))
              IN  /\ sep.pc = "done"
                  /\ enc.ret = sep.ret
                  /\ Take(enc.src, enc.ret) = Take(sep.dst, sep.ret)

\* an in-place encode of two groups (a full one and a partial one) returned
C4_Witness ==
    /\ enc.alias
    /\ enc.pc = "done"
    /\ Len(data) = 4
    /\ enc.ret = 8

\* the text with every byte that is neither an alphabet character nor '='
\* taken out
Strip(text) == SelectSeq(text, LAMBDA c : IsAlphabetChar(c) \/ c = PadChar)

\* the texts the encoder produces, in either alphabet, for the inputs modelled
ValidEncodings ==
    {Take(r.dst, r.ret) :
        r \in {EncRun(EncInit(b, url, FALSE)) : b \in DataInputs, url \in BOOLEAN}}

(* C2: idempotent skip.  A text e' that is a valid encoded string e with   *)
(* bytes that are neither alphabet characters nor '=' inserted anywhere    *)
(* decodes to the same count and the same bytes as e.  Stated here for the *)
(* runs on e' in which no read left the text.                              *)
C2_SkipInserted ==
    (dec.pc = "done" /\ DecInBounds(dec) /\ Strip(DecText) \in ValidEncodings) =>
        LET e == Strip(DecText)
            ref == fio_base64_decode(Load(e), Len(e), dec.alias)
        IN  ref.pc = "done" =>
                /\ dec.ret = ref.ret
                /\ Take(Target(dec), dec.ret) = Take(Target(ref), ref.ret)

(* C5: the encoder stores only to output cells 0 .. 4 * ceil(len / 3) - 1: *)
(* it writes no NUL terminator, and the cell at 4 * ceil(len / 3) is left  *)
(* as it was.                                                              *)
C5_EncodeWritesOnlyOutput ==
    (enc.pc \in {"switch", "loop", "done"}) =>
        LET size == 4 * Ceil3(Len(data))
        IN  /\ enc.wr \subseteq 0..(size - 1)
            /\ Target(enc)[size] = Target(EncInit(data, enc.url, enc.alias))[size]

(* C6: on every return of the decoder a zero byte has been stored at       *)
(* output cell r, r the count returned.                                    *)
C6_TerminatorWritten ==
    dec.pc = "done" =>
        /\ dec.ret \in dec.wr
        /\ Target(dec)[dec.ret] = 0

(* C7: decode buffer sizing.  Every store of the decoder (decoded bytes    *)
(* and the zero byte alike) goes to an output cell in                      *)
(* 0 .. floor(len / 4) * 3 + 2.  Stated here for the runs in which no read *)
(* left the text.                                                          *)
C7_DecodeWithinBuffer ==
    (dec.pc # "idle" /\ DecInBounds(dec)) =>
        dec.wr \subseteq 0..(((dec.len \div 4) * 3) + 2)

(* C8: in-place decode safety.  With a NULL target the decoder returns the *)
(* count and leaves the bytes that decoding the same text into a separate  *)
(* buffer gives.  Stated here for the runs in which no read left the text. *)
C8_InPlaceDecode ==
    (dec.alias /\ dec.pc = "done" /\ DecInBounds(dec)) =>
        LET sep == fio_base64_decode(dec.orig, dec.len, FALSE)
        IN  (sep.pc = "done" /\ DecInBounds(sep)) =>
                /\ dec.ret = sep.ret
                /\ Take(dec.src, dec.ret) = Take(sep.dst, sep.ret)

(* C9: for a text of length 0, or made only of bytes that are neither      *)
(* alphabet characters nor '=', the decoder returns 0, stores one zero     *)
(* byte at output cell 0 and stores nothing else.                          *)
C9_InvalidInputYieldsZero ==
    (/\ dec.pc = "done"
     /\ \A i \in 1..dec.len : ~IsAlphabetChar(DecText[i]) /\ DecText[i] # PadChar) =>
        /\ dec.ret = 0
        /\ dec.wr = {0}
        /\ Target(dec)[0] = 0

\* the number of '=' the symbols taken end with, up to two
TrailingPads(q) ==
    IF Len(q) >= 1 /\ q[Len(q)] = PadChar
    THEN (IF Len(q) >= 2 /\ q[Len(q) - 1] = PadChar THEN 2 ELSE 1)
    ELSE 0

(* C10: padding retraction.  The count returned is the number of bytes     *)
(* emitted less one for each '=' among the last symbols taken (0, 1 or 2), *)
(* whatever skipped bytes follow them in the text.  Stated here for        *)
(* decodes into a separate buffer in which no read left the text.          *)
C10_PaddingRetraction ==
    (dec.pc = "done" /\ ~dec.alias /\ DecInBounds(dec)) =>
        dec.ret = dec.emitted - TrailingPads(dec.syms)

\* the text without the '=' it ends with
Unpadded(text) ==
    LET n == Len(text) - TrailingPads(text) IN SubSeq(text, 1, n)

\* the inputs b with a final partial group, each with its encoding (either
\* alphabet) less the trailing '='
UnpaddedEncodings ==
    {<< b, Unpadded(Take(EncRun(EncInit(b, url, FALSE)).dst, 4 * Ceil3(Len(b)))) >> :
        b \in {x \in DataInputs : Len(x) % 3 # 0}, url \in BOOLEAN}

(* C11: partial-group decode.  A text that ends in an unpadded partial     *)
(* group of 2 (3) symbols decodes that group to 1 (2) bytes by the         *)
(* encoder's bit math in reverse, so decoding encode(b) with its trailing  *)
(* '=' removed returns len(b) and the bytes of b, for every b with         *)
(* len(b) mod 3 # 0.  Stated here for the runs in which no read left the   *)
(* text.                                                                   *)
C11_PartialGroupDecode ==
    (dec.pc = "done" /\ DecInBounds(dec)) =>
        \A p \in UnpaddedEncodings :
            p[2] = DecText =>
                /\ dec.ret = Len(p[1])
                /\ Take(Target(dec), dec.ret) = p[1]

(* C12: decode read bounds.  For a text of length len >= 1 every read the  *)
(* decoder makes of its input (the skip loops' table lookups, the fetches  *)
(* of tmp1..tmp4, the padding checks encoded[-1] and encoded[-2]) is at a  *)
(* cell in 0 .. len - 1, and base64_len never becomes negative.            *)
C12_DecodeReadsInText ==
    (dec.pc # "idle" /\ dec.len >= 1) =>
        /\ dec.rd \subseteq 0..(dec.len - 1)
        /\ dec.blen >= 0

============================================================================
